---- MODULE Spec2Model ----
(***************************************************************************)
(* Model of app.py: the window builders for entries and exits, the         *)
(* event/window matcher, and the page rotation callbacks of the two        *)
(* tables.                                                                 *)
(*                                                                         *)
(* Timestamps of one calendar day are seconds since midnight.  A HH:MM     *)
(* string is the minute of the day it denotes.  A location label is the    *)
(* tuple of its character codes, so that labels compare as Python strings  *)
(* do.  A DataFrame is the sequence of its rows, each row a record.        *)
(***************************************************************************)
EXTENDS Integers, Sequences, FiniteSets, TLC

\* ------------------------------------------------------------------------
\* Configuration of app.py
\* ------------------------------------------------------------------------
WINDOW_BEFORE_MIN == 60

WINDOW_AFTER_MIN == 30

PAGE_AUTO_IN_BEFORE_MIN == 60

\* seconds in a minute (pd.Timedelta(minutes=...), strftime("%H:%M"))
SecPerMin == 60

\* datetime.combine(d, dtime(23, 59, 59)), in seconds of the day
DayEndSec == 86399

\* the missing value a left merge leaves in the holder column
NaN == "NaN"

\* ------------------------------------------------------------------------
\* Bounds of the model
\* ------------------------------------------------------------------------
MaxSched == 2

MaxLog == 2

MaxDir == 2

\* "A1" and "B2"
Rooms == {<<65, 49>>, <<66, 50>>}

Cards == {"c1", "c2"}

Holders == {"h1", "h2"}

\* 10:00:00, 10:00:20, 10:30:00
SlotTimes == {36000, 36020, 37800}

\* the same and 23:59:59, for the builders alone
LateSlotTimes == SlotTimes \cup {86399}

\* 10:00:05, 10:00:10, 10:30:00
EventTimes == {36005, 36010, 37800}

\* 10:00, 10:30
TargetTimes == {600, 630}

\* the same and 23:59
LateTargetTimes == TargetTimes \cup {1439}

\* records a table can hold; 9 records make three pages of 4
MaxRecords == 9

\* property changes that can gather before a rotation callback runs
MaxTrig == 2

\* rotation callback runs the host has under way at once
MaxInflight == 2

\* rows of a merged frame given to sort_rooms_natural
MaxRows == 3

\* schedule rows and event rows of a table refresh
MaxTblSched == 2
MaxTblLog == 3

\* minutes of a day
MinPerDay == 1440

\* the dates the picker offers: day 0 and day 1
Dates == {0, 1}

\* the slot the slot dropdown offers: 10:00
TerminOptions == {600}

\* the wall clock, in minutes since day 0, 00:00: day 0 at 08:59, 09:00,
\* 09:59 and 10:00, day 1 at 09:00
ClockPoints == {539, 540, 599, 600, 1980}

\* the page sizes picked, among the options 4, 10, 12, 14, 16, 18
PickedSizes == {4, 12}

SchedRows == [termin : SlotTimes, ucionica : Rooms]

LateSchedRows == [termin : LateSlotTimes, ucionica : Rooms]

LogRows == [time : EventTimes, uid_kartice : Cards, ucionica : Rooms]

DirRows == [cuvar : Holders, uid_kartice : Cards]

RECURSIVE SeqsUpTo(_, _)
SeqsUpTo(S, n) ==
    IF n = 0 THEN {<<>>}
    ELSE LET shorter == SeqsUpTo(S, n - 1)
         IN  shorter \cup {Append(s, x) : s \in {t \in shorter : Len(t) = n - 1}, x \in S}

\* ------------------------------------------------------------------------
\* pandas primitives, as app.py uses them
\* ------------------------------------------------------------------------
\* dt.strftime("%H:%M") of a timestamp: the minute of the day
strftime_HM(t) == t \div SecPerMin

Abs(x) == IF x < 0 THEN -x ELSE x

RECURSIVE Flatten(_)
Flatten(ss) == IF ss = <<>> THEN <<>> ELSE Head(ss) \o Flatten(Tail(ss))

\* str < str of Python: lexicographic on the code points
RECURSIVE StrLess(_, _)
StrLess(a, b) ==
    IF b = <<>> THEN FALSE
    ELSE IF a = <<>> THEN TRUE
    ELSE IF Head(a) # Head(b) THEN Head(a) < Head(b)
    ELSE StrLess(Tail(a), Tail(b))

\* DataFrame.drop_duplicates(subset=..., keep="first"); Key gives the subset
drop_duplicates(df, Key(_)) ==
    LET idx == [i \in 1..Len(df) |-> [i |-> i, row |-> df[i]]]
        IsFirst(p) == \A j \in 1..(p.i - 1) : Key(df[j]) # Key(p.row)
        kept == SelectSeq(idx, IsFirst)
    IN  [i \in 1..Len(kept) |-> kept[i].row]

\* DataFrame.sort_values([...]) on several columns: a stable sort;
\* Less is the strict order of the column tuple
sort_values(df, Less(_, _)) ==
    LET n == Len(df)
        rank(i) == 1 + Cardinality({j \in 1..n :
                        \/ Less(df[j], df[i])
                        \/ (~Less(df[i], df[j]) /\ j < i)})
    IN  [k \in 1..n |-> df[CHOOSE i \in 1..n : rank(i) = k]]

\* ------------------------------------------------------------------------
\* Window builders
\* ------------------------------------------------------------------------
WindowKey(r) == <<r.ucionica, r.termin>>

RoomKey(r) == r.ucionica

\* a variant that drops duplicates on ["ucionica"] alone
build_windows_login_per_room(raspored, hhmm) ==
    IF raspored = <<>> THEN <<>>
    ELSE
    LET Sel(r) == strftime_HM(r.termin) = hhmm
        r1 == SelectSeq(raspored, Sel)
        r2 == [i \in 1..Len(r1) |->
                 [ucionica     |-> r1[i].ucionica,
                  termin       |-> r1[i].termin,
                  window_start |-> r1[i].termin - WINDOW_BEFORE_MIN * SecPerMin,
                  window_end   |-> r1[i].termin + WINDOW_AFTER_MIN * SecPerMin]]
    IN  IF r1 = <<>> THEN <<>> ELSE drop_duplicates(r2, RoomKey)

build_windows_for_time_login(raspored, hhmm) ==
    IF raspored = <<>> THEN <<>>
    ELSE
    LET Sel(r) == strftime_HM(r.termin) = hhmm
        r1 == SelectSeq(raspored, Sel)
        r2 == [i \in 1..Len(r1) |->
                 [ucionica     |-> r1[i].ucionica,
                  termin       |-> r1[i].termin,
                  window_start |-> r1[i].termin - WINDOW_BEFORE_MIN * SecPerMin,
                  window_end   |-> r1[i].termin + WINDOW_AFTER_MIN * SecPerMin]]
    IN  IF r1 = <<>> THEN <<>> ELSE drop_duplicates(r2, WindowKey)

SeqMin(s) == CHOOSE x \in {s[i] : i \in 1..Len(s)} : \A i \in 1..Len(s) : x <= s[i]

\* a variant whose next slot is the next slot after the selected minute
build_windows_logout_next_minute(raspored, hhmm) ==
    IF raspored = <<>> THEN <<>>
    ELSE
    LET Sel(r) == strftime_HM(r.termin) = hhmm
        r_sel == SelectSeq(raspored, Sel)
        start_ts == SeqMin([i \in 1..Len(r_sel) |-> r_sel[i].termin])
        later == {t \in {raspored[i].termin : i \in 1..Len(raspored)} :
                     strftime_HM(t) > hhmm}
        end_ts == IF later = {} THEN DayEndSec
                  ELSE CHOOSE t \in later : \A u \in later : t <= u
        rooms == drop_duplicates(r_sel, RoomKey)
    IN  IF r_sel = <<>> THEN <<>>
        ELSE [i \in 1..Len(rooms) |->
                 [ucionica     |-> rooms[i].ucionica,
                  termin       |-> start_ts,
                  window_start |-> start_ts,
                  window_end   |-> end_ts]]

build_windows_for_time_logout(raspored, hhmm) ==
    IF raspored = <<>> THEN <<>>
    ELSE
    LET Sel(r) == strftime_HM(r.termin) = hhmm
        r_sel == SelectSeq(raspored, Sel)
        start_ts == SeqMin([i \in 1..Len(r_sel) |-> r_sel[i].termin])
        later == {t \in {raspored[i].termin : i \in 1..Len(raspored)} : t > start_ts}
        end_ts == IF later = {} THEN DayEndSec
                  ELSE CHOOSE t \in later : \A u \in later : t <= u
        rooms == drop_duplicates(r_sel, RoomKey)
    IN  IF r_sel = <<>> THEN <<>>
        ELSE [i \in 1..Len(rooms) |->
                 [ucionica     |-> rooms[i].ucionica,
                  termin       |-> start_ts,
                  window_start |-> start_ts,
                  window_end   |-> end_ts]]

\* ------------------------------------------------------------------------
\* Event/window matcher
\* ------------------------------------------------------------------------
AssignedColumns == <<"ucionica", "vrijeme", "broj_kartice", "cuvar", "termin">>

\* a variant with how="inner"
merge_inner_kartice(df, k) ==
    LET MatchesOf(e) ==
            LET Same(kr) == kr.uid_kartice = e.uid_kartice
                ks == SelectSeq(k, Same)
            IN  [i \in 1..Len(ks) |->
                    [time |-> e.time, uid_kartice |-> e.uid_kartice,
                     ucionica |-> e.ucionica, cuvar |-> ks[i].cuvar]]
    IN  Flatten([i \in 1..Len(df) |-> MatchesOf(df[i])])

\* df.merge(k, on="uid_kartice", how="left")
merge_left_kartice(df, k) ==
    LET MatchesOf(e) ==
            LET Same(kr) == kr.uid_kartice = e.uid_kartice
                ks == SelectSeq(k, Same)
            IN  IF ks = <<>>
                THEN << [time |-> e.time, uid_kartice |-> e.uid_kartice,
                         ucionica |-> e.ucionica, cuvar |-> NaN] >>
                ELSE [i \in 1..Len(ks) |->
                        [time |-> e.time, uid_kartice |-> e.uid_kartice,
                         ucionica |-> e.ucionica, cuvar |-> ks[i].cuvar]]
    IN  Flatten([i \in 1..Len(df) |-> MatchesOf(df[i])])

\* df.merge(windows, on="ucionica", how="inner")
merge_inner_windows(df, windows) ==
    LET MatchesOf(e) ==
            LET Same(w) == w.ucionica = e.ucionica
                ws == SelectSeq(windows, Same)
            IN  [i \in 1..Len(ws) |->
                    [time |-> e.time, uid_kartice |-> e.uid_kartice,
                     ucionica |-> e.ucionica, cuvar |-> e.cuvar,
                     termin |-> ws[i].termin,
                     window_start |-> ws[i].window_start,
                     window_end |-> ws[i].window_end]]
    IN  Flatten([i \in 1..Len(df) |-> MatchesOf(df[i])])

\* a variant that closes the window at its end
InWindowClosed(r) == r.time >= r.window_start /\ r.time <= r.window_end

InWindow(r) == r.time >= r.window_start /\ r.time < r.window_end

Delta(r) == Abs(r.time - r.termin)

\* a variant that sorts on ["time","ucionica"] only
LessTimeRoom(a, b) ==
    \/ a.time < b.time
    \/ a.time = b.time /\ StrLess(a.ucionica, b.ucionica)

\* order of sort_values(["time","ucionica","delta"])
LessTimeRoomDelta(a, b) ==
    \/ a.time < b.time
    \/ a.time = b.time /\ StrLess(a.ucionica, b.ucionica)
    \/ a.time = b.time /\ a.ucionica = b.ucionica /\ Delta(a) < Delta(b)

\* a variant whose subset also holds the slot time
EventKeyWithSlot(r) == <<r.time, r.ucionica, r.uid_kartice, r.termin>>

EventKey(r) == <<r.time, r.ucionica, r.uid_kartice>>

\* order of sort_values(["ucionica","vrijeme"])
LessRoomTime(a, b) ==
    \/ StrLess(a.ucionica, b.ucionica)
    \/ a.ucionica = b.ucionica /\ a.vrijeme < b.vrijeme

\* DataFrame.drop_duplicates(subset=..., keep="last")
drop_duplicates_last(df, Key(_)) ==
    LET idx == [i \in 1..Len(df) |-> [i |-> i, row |-> df[i]]]
        IsLast(p) == \A j \in (p.i + 1)..Len(df) : Key(df[j]) # Key(p.row)
        kept == SelectSeq(idx, IsLast)
    IN  [i \in 1..Len(kept) |-> kept[i].row]

\* a variant of the deduplication with keep="last"
DedupNearestLast(j) == drop_duplicates_last(sort_values(j, LessTimeRoomDelta), EventKey)

\* j.sort_values(["time","ucionica","delta"]).drop_duplicates(subset=[...], keep="first")
DedupNearest(j) == drop_duplicates(sort_values(j, LessTimeRoomDelta), EventKey)

\* a variant whose empty result carries the window columns
assign_logs_window_columns(log_df, windows, kartice) ==
    IF log_df = <<>> \/ windows = <<>>
    THEN [columns |-> <<"ucionica", "termin", "window_start", "window_end">>, rows |-> <<>>]
    ELSE
    LET df == merge_left_kartice(log_df, kartice)
        j2 == DedupNearest(SelectSeq(merge_inner_windows(df, windows), InWindow))
        out == [i \in 1..Len(j2) |->
                  [ucionica     |-> j2[i].ucionica,
                   vrijeme      |-> j2[i].time,
                   broj_kartice |-> j2[i].uid_kartice,
                   cuvar        |-> j2[i].cuvar,
                   termin       |-> j2[i].termin]]
    IN  [columns |-> AssignedColumns, rows |-> sort_values(out, LessRoomTime)]

assign_logs_to_windows(log_df, windows, kartice) ==
    IF log_df = <<>> \/ windows = <<>>
    THEN [columns |-> AssignedColumns, rows |-> <<>>]
    ELSE
    LET df == merge_left_kartice(log_df, kartice)
        j0 == merge_inner_windows(df, windows)
        j1 == SelectSeq(j0, InWindow)
        j2 == DedupNearest(j1)
        out == [i \in 1..Len(j2) |->
                  [ucionica     |-> j2[i].ucionica,
                   vrijeme      |-> j2[i].time,
                   broj_kartice |-> j2[i].uid_kartice,
                   cuvar        |-> j2[i].cuvar,
                   termin       |-> j2[i].termin]]
    IN  [columns |-> AssignedColumns, rows |-> sort_values(out, LessRoomTime)]

\* the two decimal digits of n as text
TwoDigits(n) == <<48 + (n \div 10), 48 + (n % 10)>>

\* dt.strftime("%d.%m.%Y. %H:%M:%S") of second t of day d; day d is the
\* (d+1)-th of January 2025
strftime_dmY_HMS(d, t) ==
    TwoDigits(d + 1) \o <<46, 48, 49, 46, 50, 48, 50, 53, 46, 32>>
        \o TwoDigits(t \div 3600) \o <<58>>
        \o TwoDigits((t \div SecPerMin) % 60) \o <<58>>
        \o TwoDigits(t % 60)

\* the text "—" that fillna puts in the time column
Placeholder == <<8212>>

\* the value "—" (U+2014) that fillna puts in the card and holder columns
PlaceholderName == "U+2014"

\* ------------------------------------------------------------------------
\* Ordering and banding of the table rows
\* ------------------------------------------------------------------------
\* the characters of the class [A-Za-zČĆŽŠĐ]
IsLetter(c) == c \in (65..90) \cup (97..122) \cup {268, 262, 381, 352, 272}

\* the characters of the class \d
IsDigit(c) == c \in 48..57

\* str.extract(r"^([A-Za-zČĆŽŠĐ]+)").fillna(""): the leading run of letters
RECURSIVE LeadingLetters(_)
LeadingLetters(str) ==
    IF str = <<>> \/ ~IsLetter(Head(str)) THEN <<>>
    ELSE <<Head(str)>> \o LeadingLetters(Tail(str))

\* the leading run of digits of a text
RECURSIVE LeadingDigits(_)
LeadingDigits(str) ==
    IF str = <<>> \/ ~IsDigit(Head(str)) THEN <<>>
    ELSE <<Head(str)>> \o LeadingDigits(Tail(str))

\* str.extract(r"(\d+)"): the first run of digits, empty when there is none
RECURSIVE FirstDigitRun(_)
FirstDigitRun(str) ==
    IF str = <<>> THEN <<>>
    ELSE IF IsDigit(Head(str)) THEN LeadingDigits(str)
    ELSE FirstDigitRun(Tail(str))

\* the integer a run of digits denotes
RECURSIVE DigitsValue(_)
DigitsValue(ds) ==
    IF ds = <<>> THEN 0
    ELSE 10 * DigitsValue(SubSeq(ds, 1, Len(ds) - 1)) + (ds[Len(ds)] - 48)

\* pd.to_numeric(..., errors="coerce").fillna(0).astype(int)
RoomNum(label) == DigitsValue(FirstDigitRun(label))

\* the order of the columns __pref, __num, ucionica, with the number
\* column compared as text
LessNaturalText(a, b, extra_order) ==
    LET pa == LeadingLetters(a.ucionica)
        pb == LeadingLetters(b.ucionica)
        na == FirstDigitRun(a.ucionica)
        nb == FirstDigitRun(b.ucionica)
    IN  IF pa # pb THEN StrLess(pa, pb)
        ELSE IF na # nb THEN StrLess(na, nb)
        ELSE IF extra_order # <<>> /\ a.vrijeme # b.vrijeme
             THEN StrLess(a.vrijeme, b.vrijeme)
        ELSE StrLess(a.ucionica, b.ucionica)

\* the order of the columns ["__pref", "__num"] + extra_order + [col]
LessNatural(a, b, extra_order) ==
    LET pa == LeadingLetters(a.ucionica)
        pb == LeadingLetters(b.ucionica)
        na == RoomNum(a.ucionica)
        nb == RoomNum(b.ucionica)
    IN  IF pa # pb THEN StrLess(pa, pb)
        ELSE IF na # nb THEN na < nb
        ELSE IF extra_order # <<>> /\ a.vrijeme # b.vrijeme
             THEN StrLess(a.vrijeme, b.vrijeme)
        ELSE StrLess(a.ucionica, b.ucionica)

\* sort_rooms_natural(df, col="ucionica", extra_order=...); extra_order is
\* <<>> or <<"vrijeme">>
sort_rooms_natural(df, extra_order) ==
    IF df = <<>> THEN df
    ELSE LET Less(a, b) == LessNatural(a, b, extra_order)
         IN  sort_values(df, Less)

\* the two band colours
colors == <<"#F6FAFF", "#FFF8F2">>

\* rooms_order of make_group_stripes: the labels in the order first seen
rooms_order(rows) ==
    LET labels == [i \in 1..Len(rows) |-> [ucionica |-> rows[i].ucionica]]
        Named(r) == r.ucionica # <<>>
        first == drop_duplicates(SelectSeq(labels, Named), RoomKey)
    IN  [i \in 1..Len(first) |-> first[i].ucionica]

\* make_group_stripes(rows): one style per label, colours[i % 2] (i from 0)
make_group_stripes(rows) ==
    LET order == rooms_order(rows)
    IN  [i \in 1..Len(order) |->
            [ucionica |-> order[i], backgroundColor |-> colors[((i - 1) % 2) + 1]]]

\* ------------------------------------------------------------------------
\* State
\* ------------------------------------------------------------------------
VARIABLES
    pc,         \* position in a recomputation: "fetched", "windows", "assigned"
    flow,       \* "in" (refresh_logins) or "out" (refresh_logouts)
    raspored,   \* schedule rows of the selected date
    sel_hhmm,   \* selected slot, as minute of the day
    log_df,     \* event rows of the selected date and direction
    kartice,    \* directory rows
    windows,    \* result of the window builder
    assigned,   \* result of assign_logs_to_windows
    now,             \* datetime.now(), in minutes since day 0, 00:00
    picker_datum,    \* picker-datum.date, a day number
    dropdown_termin, \* dropdown-termin.value, a minute of the day or None
    page_size_ctrl,  \* page-size.value
    tbl,             \* the table of the flow: number of records in data,
                     \* page_size, page_current
    trig,            \* changed properties waiting for the rotation callback
    pend_term,       \* update_termini is due
    pend_size,       \* set_page_size is due
    last_rot,        \* the rotation callback that has just returned: its
                     \* first triggering property, its page_current and
                     \* all its triggering properties
    inflight,        \* rotation callback runs under way: the properties and
                     \* State values each was given
    serial,          \* the page the returned runs give when each is applied
                     \* as one step, in the order of their return
    merged,          \* the rooms of the slot joined with the assigned records
    table,           \* data of the table: the records in display order
    stripes          \* style_data_conditional of the table

tablevars == <<merged, table, stripes>>

matchvars == <<pc, raspored, sel_hhmm, log_df, kartice, windows, assigned, tablevars>>

pagevars == <<now, picker_datum, dropdown_termin, page_size_ctrl, tbl, trig,
              pend_term, pend_size, last_rot, inflight, serial>>

vars == <<flow, matchvars, pagevars>>

\* Python's None
None == -1

NoRot == [src |-> "", prev |-> None, props |-> <<>>]

\* the paging state while only the matcher runs
PageIdle ==
    /\ now = 0
    /\ picker_datum = 0
    /\ dropdown_termin = None
    /\ page_size_ctrl = 12
    /\ tbl = [n |-> 0, page_size |-> 12, page_current |-> 0]
    /\ trig = <<>>
    /\ pend_term = FALSE
    /\ pend_size = FALSE
    /\ last_rot = NoRot
    /\ inflight = <<>>
    /\ serial = 0

\* the table state while no table is computed
TableIdle ==
    /\ merged = <<>>
    /\ table = <<>>
    /\ stripes = <<>>

EmptyAssigned == [columns |-> <<>>, rows |-> <<>>]

\* ------------------------------------------------------------------------
\* The matcher applied to fetched snapshots
\* ------------------------------------------------------------------------
InitMatch ==
    /\ pc = "fetched"
    /\ flow \in {"in", "out"}
    /\ raspored \in SeqsUpTo(SchedRows, MaxSched)
    /\ sel_hhmm \in TargetTimes
    /\ log_df \in SeqsUpTo(LogRows, MaxLog)
    /\ kartice \in SeqsUpTo(DirRows, MaxDir)
    /\ windows = <<>>
    /\ assigned = EmptyAssigned
    /\ TableIdle
    /\ PageIdle

BuildLogin ==
    /\ pc = "fetched"
    /\ flow = "in"
    /\ windows' = build_windows_for_time_login(raspored, sel_hhmm)
    /\ pc' = "windows"
    /\ UNCHANGED <<flow, raspored, sel_hhmm, log_df, kartice, assigned, tablevars, pagevars>>

BuildLogout ==
    /\ pc = "fetched"
    /\ flow = "out"
    /\ windows' = build_windows_for_time_logout(raspored, sel_hhmm)
    /\ pc' = "windows"
    /\ UNCHANGED <<flow, raspored, sel_hhmm, log_df, kartice, assigned, tablevars, pagevars>>

Assign ==
    /\ pc = "windows"
    /\ assigned' = assign_logs_to_windows(log_df, windows, kartice)
    /\ pc' = "assigned"
    /\ UNCHANGED <<flow, raspored, sel_hhmm, log_df, kartice, windows, tablevars, pagevars>>

NextMatch == BuildLogin \/ BuildLogout \/ Assign

SpecMatch == InitMatch /\ [][NextMatch]_vars

\* ------------------------------------------------------------------------
\* The window builders applied to a fetched schedule
\* ------------------------------------------------------------------------
InitWin ==
    /\ pc = "fetched"
    /\ flow \in {"in", "out"}
    /\ raspored \in SeqsUpTo(LateSchedRows, MaxSched)
    /\ sel_hhmm \in LateTargetTimes
    /\ log_df = <<>>
    /\ kartice = <<>>
    /\ windows = <<>>
    /\ assigned = EmptyAssigned
    /\ TableIdle
    /\ PageIdle

NextWin == BuildLogin \/ BuildLogout

SpecWin == InitWin /\ [][NextWin]_vars

\* ------------------------------------------------------------------------
\* Page rotation
\* ------------------------------------------------------------------------
\* a variant that stops on the last page
_next_page_no_wrap(curr, total) ==
    IF total <= 1 THEN 0
    ELSE LET c == IF curr = None THEN 0 ELSE curr
         IN  IF c + 1 < total THEN c + 1 ELSE c

_next_page(curr, total) ==
    IF total <= 1 THEN 0
    ELSE LET c == IF curr = None THEN 0 ELSE curr
         IN  (c + 1) % total

\* date.today()
Today == now \div MinPerDay

\* a variant whose window is closed at the slot
is_in_login_autopage_window_closed(d, hhmm) ==
    LET T == d * MinPerDay + hhmm
    IN  T - PAGE_AUTO_IN_BEFORE_MIN <= now /\ now <= T

is_in_login_autopage_window(d, hhmm) ==
    LET T == d * MinPerDay + hhmm
    IN  T - PAGE_AUTO_IN_BEFORE_MIN <= now /\ now < T

is_selected_today(d_iso) ==
    IF d_iso = None THEN FALSE ELSE d_iso = Today

Max(a, b) == IF a >= b THEN a ELSE b

\* curr or 0
OrZero(curr) == IF curr = None THEN 0 ELSE curr

\* ctx.triggered[0]["prop_id"].split(".")[0]
TriggerSrc == IF trig = <<>> THEN "" ELSE Head(trig)

FilterProps == {"picker-datum", "dropdown-termin", "page-size"}

\* a changed property joins those the due callback run will be given; "."
\* stands for a due run without a changed property (the initial call)
AppendTrig(prop) == IF trig = <<".">> THEN <<prop>> ELSE Append(trig, prop)

\* page_size_tbl or page_size_ctrl or 12
PageSizeOr(page_size_tbl, page_size_ctrl_) ==
    IF page_size_tbl # 0 /\ page_size_tbl # None THEN page_size_tbl
    ELSE IF page_size_ctrl_ # 0 /\ page_size_ctrl_ # None THEN page_size_ctrl_
    ELSE 12

\* the value rotate_pages_in returns when ctx.triggered[0] names src
rotate_in_value(src, d_iso, hhmm, page_size_ctrl_, n, page_size_tbl, curr) ==
    IF src \in FilterProps THEN 0
    ELSE IF d_iso = None \/ hhmm = None THEN OrZero(curr)
    ELSE IF ~is_in_login_autopage_window(d_iso, hhmm) THEN OrZero(curr)
    ELSE LET ps == PageSizeOr(page_size_tbl, page_size_ctrl_)
             total == Max(1, (n + ps - 1) \div ps)
         IN  _next_page(curr, total)

\* the value rotate_pages_out returns when ctx.triggered[0] names src
rotate_out_value(src, d_iso, hhmm, page_size_ctrl_, n, page_size_tbl, curr) ==
    IF src \in FilterProps THEN 0
    ELSE IF ~is_selected_today(d_iso) THEN OrZero(curr)
    ELSE LET ps == PageSizeOr(page_size_tbl, page_size_ctrl_)
             total == Max(1, (n + ps - 1) \div ps)
         IN  _next_page(curr, total)

\* the value rotate_pages_in returns
rotate_pages_in(d_iso, hhmm, page_size_ctrl_, n, page_size_tbl, curr) ==
    rotate_in_value(TriggerSrc, d_iso, hhmm, page_size_ctrl_, n, page_size_tbl, curr)

\* the value rotate_pages_out returns
rotate_pages_out(d_iso, hhmm, page_size_ctrl_, n, page_size_tbl, curr) ==
    rotate_out_value(TriggerSrc, d_iso, hhmm, page_size_ctrl_, n, page_size_tbl, curr)

\* the state after the layout is built: every callback is due once, the
\* rotation callback with the empty property "."
InitPage ==
    /\ flow \in {"in", "out"}
    /\ pc = "page"
    /\ raspored = <<>>
    /\ sel_hhmm = None
    /\ log_df = <<>>
    /\ kartice = <<>>
    /\ windows = <<>>
    /\ assigned = EmptyAssigned
    /\ now \in ClockPoints
    /\ picker_datum = Today
    /\ dropdown_termin = None
    /\ page_size_ctrl = 12
    /\ tbl = [n |-> 0, page_size |-> 12, page_current |-> 0]
    /\ trig = <<".">>
    /\ pend_term = TRUE
    /\ pend_size = TRUE
    /\ last_rot = NoRot
    /\ inflight = <<>>
    /\ serial = 0
    /\ TableIdle

\* the wall clock moves on
ClockAdvance ==
    /\ \E t \in ClockPoints : t > now /\ now' = t
    /\ last_rot' = NoRot
    /\ UNCHANGED <<flow, matchvars, inflight, serial, picker_datum, dropdown_termin, page_size_ctrl,
                   tbl, trig, pend_term, pend_size>>

\* dcc.Interval pager-in / pager-out fires
PagerTick ==
    /\ Len(trig) < MaxTrig
    /\ trig' = AppendTrig("pager")
    /\ last_rot' = NoRot
    /\ UNCHANGED <<flow, matchvars, inflight, serial, now, picker_datum, dropdown_termin,
                   page_size_ctrl, tbl, pend_term, pend_size>>

\* the user picks another date
PickDate ==
    /\ Len(trig) < MaxTrig
    /\ \E d \in Dates : d # picker_datum /\ picker_datum' = d
    /\ trig' = AppendTrig("picker-datum")
    /\ pend_term' = TRUE
    /\ last_rot' = NoRot
    /\ UNCHANGED <<flow, matchvars, inflight, serial, now, dropdown_termin, page_size_ctrl, tbl,
                   pend_size>>

\* update_termini: the slot of the date, None when the date has no schedule
update_termini ==
    /\ pend_term
    /\ Len(trig) < MaxTrig
    /\ \E v \in TerminOptions \cup {None} : dropdown_termin' = v
    /\ trig' = AppendTrig("dropdown-termin")
    /\ pend_term' = FALSE
    /\ last_rot' = NoRot
    /\ UNCHANGED <<flow, matchvars, inflight, serial, now, picker_datum, page_size_ctrl, tbl,
                   pend_size>>

\* the user picks another page size
PickPageSize ==
    /\ Len(trig) < MaxTrig
    /\ \E v \in PickedSizes : v # page_size_ctrl /\ page_size_ctrl' = v
    /\ trig' = AppendTrig("page-size")
    /\ pend_size' = TRUE
    /\ last_rot' = NoRot
    /\ UNCHANGED <<flow, matchvars, inflight, serial, now, picker_datum, dropdown_termin, tbl,
                   pend_term>>

set_page_size ==
    /\ pend_size
    /\ tbl' = [tbl EXCEPT !.page_size =
                  IF page_size_ctrl = 0 \/ page_size_ctrl = None THEN 12
                  ELSE page_size_ctrl]
    /\ pend_size' = FALSE
    /\ last_rot' = NoRot
    /\ UNCHANGED <<flow, matchvars, inflight, serial, now, picker_datum, dropdown_termin,
                   page_size_ctrl, trig, pend_term>>

\* refresh_logins / refresh_logouts store new data in the table: no record
\* without a date or a slot, else the records the database yields
RefreshTable ==
    /\ \E n \in 0..MaxRecords :
          /\ (picker_datum = None \/ dropdown_termin = None) => n = 0
          /\ tbl' = [tbl EXCEPT !.n = n]
    /\ last_rot' = NoRot
    /\ UNCHANGED <<flow, matchvars, inflight, serial, now, picker_datum, dropdown_termin,
                   page_size_ctrl, trig, pend_term, pend_size>>

RotatePagesIn ==
    /\ flow = "in"
    /\ trig # <<>>
    /\ tbl' = [tbl EXCEPT !.page_current =
                  rotate_pages_in(picker_datum, dropdown_termin, page_size_ctrl,
                                  tbl.n, tbl.page_size, tbl.page_current)]
    /\ last_rot' = [src |-> TriggerSrc, prev |-> tbl.page_current, props |-> trig]
    /\ trig' = <<>>
    /\ UNCHANGED <<flow, matchvars, inflight, serial, now, picker_datum, dropdown_termin,
                   page_size_ctrl, pend_term, pend_size>>

RotatePagesOut ==
    /\ flow = "out"
    /\ trig # <<>>
    /\ tbl' = [tbl EXCEPT !.page_current =
                  rotate_pages_out(picker_datum, dropdown_termin, page_size_ctrl,
                                   tbl.n, tbl.page_size, tbl.page_current)]
    /\ last_rot' = [src |-> TriggerSrc, prev |-> tbl.page_current, props |-> trig]
    /\ trig' = <<>>
    /\ UNCHANGED <<flow, matchvars, inflight, serial, now, picker_datum, dropdown_termin,
                   page_size_ctrl, pend_term, pend_size>>

NextPage ==
    \/ ClockAdvance
    \/ PagerTick
    \/ PickDate
    \/ update_termini
    \/ PickPageSize
    \/ set_page_size
    \/ RefreshTable
    \/ RotatePagesIn
    \/ RotatePagesOut

SpecPage == InitPage /\ [][NextPage]_vars

\* ------------------------------------------------------------------------
\* Rotation callbacks run concurrently by the host
\* ------------------------------------------------------------------------
\* a table of unchanged data, AutoActive in both flows, no run under way
InitConc ==
    /\ flow \in {"in", "out"}
    /\ pc = "conc"
    /\ raspored = <<>>
    /\ sel_hhmm = None
    /\ log_df = <<>>
    /\ kartice = <<>>
    /\ windows = <<>>
    /\ assigned = EmptyAssigned
    /\ TableIdle
    /\ now = 540
    /\ picker_datum = Today
    /\ dropdown_termin = 600
    /\ page_size_ctrl \in PickedSizes
    /\ \E n \in 0..MaxRecords :
          tbl = [n |-> n, page_size |-> page_size_ctrl, page_current |-> 0]
    /\ trig = <<>>
    /\ pend_term = FALSE
    /\ pend_size = FALSE
    /\ last_rot = NoRot
    /\ inflight = <<>>
    /\ serial = 0

\* the sequence without its i-th element
RemoveAt(seq, i) == SubSeq(seq, 1, i - 1) \o SubSeq(seq, i + 1, Len(seq))

\* a pager tick starts a run: the run is given the State values of the moment
DispatchTick ==
    /\ Len(inflight) < MaxInflight
    /\ inflight' = Append(inflight, [src |-> "pager", n |-> tbl.n,
                                     page_size |-> tbl.page_size,
                                     curr |-> tbl.page_current])
    /\ UNCHANGED <<flow, matchvars, now, picker_datum, dropdown_termin,
                   page_size_ctrl, tbl, trig, pend_term, pend_size, last_rot, serial>>

\* update_termini stores the slot of the date anew and so starts a run
DispatchFilter ==
    /\ Len(inflight) < MaxInflight
    /\ inflight' = Append(inflight, [src |-> "dropdown-termin", n |-> tbl.n,
                                     page_size |-> tbl.page_size,
                                     curr |-> tbl.page_current])
    /\ UNCHANGED <<flow, matchvars, now, picker_datum, dropdown_termin,
                   page_size_ctrl, tbl, trig, pend_term, pend_size, last_rot, serial>>

\* the page that applying run r to page p in one step gives
SerialStep(r, p) ==
    IF r.src \in FilterProps THEN 0
    ELSE (p + 1) % Max(1, (tbl.n + tbl.page_size - 1) \div tbl.page_size)

\* a run of rotate_pages_in returns and its value is stored in page_current
ReturnIn ==
    /\ flow = "in"
    /\ \E i \in 1..Len(inflight) :
          /\ tbl' = [tbl EXCEPT !.page_current =
                        rotate_in_value(inflight[i].src, picker_datum, dropdown_termin,
                                        page_size_ctrl, inflight[i].n,
                                        inflight[i].page_size, inflight[i].curr)]
          /\ serial' = SerialStep(inflight[i], serial)
          /\ inflight' = RemoveAt(inflight, i)
    /\ UNCHANGED <<flow, matchvars, now, picker_datum, dropdown_termin,
                   page_size_ctrl, trig, pend_term, pend_size, last_rot>>

\* a run of rotate_pages_out returns and its value is stored in page_current
ReturnOut ==
    /\ flow = "out"
    /\ \E i \in 1..Len(inflight) :
          /\ tbl' = [tbl EXCEPT !.page_current =
                        rotate_out_value(inflight[i].src, picker_datum, dropdown_termin,
                                         page_size_ctrl, inflight[i].n,
                                         inflight[i].page_size, inflight[i].curr)]
          /\ serial' = SerialStep(inflight[i], serial)
          /\ inflight' = RemoveAt(inflight, i)
    /\ UNCHANGED <<flow, matchvars, now, picker_datum, dropdown_termin,
                   page_size_ctrl, trig, pend_term, pend_size, last_rot>>

NextConc == DispatchTick \/ DispatchFilter \/ ReturnIn \/ ReturnOut

SpecConc == InitConc /\ [][NextConc]_vars

\* ------------------------------------------------------------------------
\* sort_rooms_natural and make_group_stripes applied to merged frames
\* ------------------------------------------------------------------------
\* labels C1, C01, C2, C10 and B (no number)
SortLabels == {<<67, 49>>, <<67, 48, 49>>, <<67, 50>>, <<67, 49, 48>>, <<66>>}

\* rows of a merged frame: a room without event, or an event of a room
SortRows ==
    [ucionica : SortLabels, vrijeme : {Placeholder},
     broj_kartice : {PlaceholderName}, cuvar : {PlaceholderName}]
    \cup
    [ucionica : SortLabels,
     vrijeme : {strftime_dmY_HMS(0, t) : t \in {36005, 36010}},
     broj_kartice : Cards, cuvar : {"h1"}]

\* what the left merge of the rooms with the assigned events can hold: no two
\* rows of one (room, time, card), and a row without event alone in its room
IsMergedFrame(df) ==
    \A i, j \in 1..Len(df) :
        i # j =>
            /\ <<df[i].ucionica, df[i].vrijeme, df[i].broj_kartice>>
                   # <<df[j].ucionica, df[j].vrijeme, df[j].broj_kartice>>
            /\ df[i].vrijeme = Placeholder => df[i].ucionica # df[j].ucionica

InitSort ==
    /\ pc = "merged"
    /\ flow \in {"in", "out"}
    /\ raspored = <<>>
    /\ sel_hhmm = None
    /\ log_df = <<>>
    /\ kartice = <<>>
    /\ windows = <<>>
    /\ assigned = EmptyAssigned
    /\ merged \in {df \in SeqsUpTo(SortRows, MaxRows) : IsMergedFrame(df)}
    /\ table = <<>>
    /\ stripes = <<>>
    /\ PageIdle

\* the tail of refresh_logins: order the merged frame, band the records
SortLogins ==
    /\ pc = "merged"
    /\ flow = "in"
    /\ table' = sort_rooms_natural(merged, <<"vrijeme">>)
    /\ stripes' = make_group_stripes(table')
    /\ pc' = "sorted"
    /\ UNCHANGED <<flow, raspored, sel_hhmm, log_df, kartice, windows, assigned,
                   merged, pagevars>>

\* the tail of refresh_logouts
SortLogouts ==
    /\ pc = "merged"
    /\ flow = "out"
    /\ table' = sort_rooms_natural(merged, <<"vrijeme">>)
    /\ stripes' = make_group_stripes(table')
    /\ pc' = "sorted"
    /\ UNCHANGED <<flow, raspored, sel_hhmm, log_df, kartice, windows, assigned,
                   merged, pagevars>>

NextSort == SortLogins \/ SortLogouts

SpecSort == InitSort /\ [][NextSort]_vars

\* ------------------------------------------------------------------------
\* The table refresh: refresh_logins, refresh_logouts
\* ------------------------------------------------------------------------
\* a missing value of the time column (None, NaN) before fillna
NoText == <<>>

\* the rooms with a slot at hhmm, each once, in schedule order
rooms_at(raspored_, hhmm) ==
    LET AtTarget(r) == strftime_HM(r.termin) = hhmm
        at == SelectSeq(raspored_, AtTarget)
    IN  drop_duplicates([i \in 1..Len(at) |-> [ucionica |-> at[i].ucionica]], RoomKey)

\* assigned with the time as text, the four table columns
format_assigned(a, d) ==
    [i \in 1..Len(a) |->
        [ucionica     |-> a[i].ucionica,
         vrijeme      |-> strftime_dmY_HMS(d, a[i].vrijeme),
         broj_kartice |-> a[i].broj_kartice,
         cuvar        |-> a[i].cuvar]]

\* rooms.merge(assigned, on="ucionica", how="inner")
merge_inner_rooms(rooms, a) ==
    LET MatchesOf(room) ==
            LET Same(r) == r.ucionica = room.ucionica
            IN  SelectSeq(a, Same)
    IN  Flatten([i \in 1..Len(rooms) |-> MatchesOf(rooms[i])])

\* rooms.merge(assigned, on="ucionica", how="left")
merge_left_rooms(rooms, a) ==
    LET MatchesOf(room) ==
            LET Same(r) == r.ucionica = room.ucionica
                rs == SelectSeq(a, Same)
            IN  IF rs = <<>>
                THEN << [ucionica |-> room.ucionica, vrijeme |-> NoText,
                         broj_kartice |-> NaN, cuvar |-> NaN] >>
                ELSE rs
    IN  Flatten([i \in 1..Len(rooms) |-> MatchesOf(rooms[i])])

\* rooms.copy() with the three columns set to None
rooms_without_events(rooms) ==
    [i \in 1..Len(rooms) |->
        [ucionica |-> rooms[i].ucionica, vrijeme |-> NoText,
         broj_kartice |-> NaN, cuvar |-> NaN]]

\* merged[[time, card, holder]].fillna("—")
fillna(df) ==
    [i \in 1..Len(df) |->
        [ucionica     |-> df[i].ucionica,
         vrijeme      |-> IF df[i].vrijeme = NoText THEN Placeholder ELSE df[i].vrijeme,
         broj_kartice |-> IF df[i].broj_kartice = NaN THEN PlaceholderName
                          ELSE df[i].broj_kartice,
         cuvar        |-> IF df[i].cuvar = NaN THEN PlaceholderName ELSE df[i].cuvar]]

\* rooms A1, A1B and B2
TableRooms == {<<65, 49>>, <<65, 49, 66>>, <<66, 50>>}

TableSchedRows == [termin : {36000, 37800}, ucionica : TableRooms]

TableLogRows == [time : {34000, 36005, 36010}, uid_kartice : {"c1"}, ucionica : TableRooms]

InitTable ==
    /\ pc = "fetched"
    /\ flow \in {"in", "out"}
    /\ raspored \in SeqsUpTo(TableSchedRows, MaxTblSched)
    /\ sel_hhmm \in TerminOptions \cup {None}
    /\ log_df \in SeqsUpTo(TableLogRows, MaxTblLog)
    /\ kartice \in {<<>>, <<[cuvar |-> "h1", uid_kartice |-> "c1"]>>}
    /\ windows = <<>>
    /\ assigned = EmptyAssigned
    /\ TableIdle
    /\ PageIdle

\* the handler from the built windows on: match, merge, fill, order, band
RefreshFrom(w) ==
    LET a == assign_logs_to_windows(log_df, w, kartice)
        rooms == rooms_at(raspored, sel_hhmm)
        m == fillna(IF a.rows # <<>>
                    THEN merge_left_rooms(rooms, format_assigned(a.rows, picker_datum))
                    ELSE rooms_without_events(rooms))
        out_df == sort_rooms_natural(m, <<"vrijeme">>)
    IN  /\ windows' = w
        /\ assigned' = a
        /\ merged' = m
        /\ table' = out_df
        /\ stripes' = make_group_stripes(out_df)

\* refresh_logins(_, datum, hhmm)
refresh_logins ==
    /\ pc = "fetched"
    /\ flow = "in"
    /\ pc' = "refreshed"
    /\ IF picker_datum = None \/ sel_hhmm = None \/ raspored = <<>>
       THEN /\ table' = <<>>
            /\ stripes' = <<>>
            /\ UNCHANGED <<windows, assigned, merged>>
       ELSE RefreshFrom(build_windows_for_time_login(raspored, sel_hhmm))
    /\ UNCHANGED <<flow, raspored, sel_hhmm, log_df, kartice, pagevars>>

\* refresh_logouts(_n, datum, hhmm)
refresh_logouts ==
    /\ pc = "fetched"
    /\ flow = "out"
    /\ pc' = "refreshed"
    /\ IF picker_datum = None \/ sel_hhmm = None \/ raspored = <<>>
       THEN /\ table' = <<>>
            /\ stripes' = <<>>
            /\ UNCHANGED <<windows, assigned, merged>>
       ELSE RefreshFrom(build_windows_for_time_logout(raspored, sel_hhmm))
    /\ UNCHANGED <<flow, raspored, sel_hhmm, log_df, kartice, pagevars>>

NextTable == refresh_logins \/ refresh_logouts

SpecTable == InitTable /\ [][NextTable]_vars

\* ------------------------------------------------------------------------
\* Properties of the matcher
\* ------------------------------------------------------------------------
Range(s) == {s[i] : i \in 1..Len(s)}

\* the windows of a location that hold a time
WindowsHolding(room, t) ==
    {i \in 1..Len(windows) : /\ windows[i].ucionica = room
                             /\ windows[i].window_start <= t
                             /\ t < windows[i].window_end}

C2_Uniqueness ==
    pc = "assigned" =>
        \A i, k \in 1..Len(assigned.rows) :
            i # k =>
                <<assigned.rows[i].vrijeme, assigned.rows[i].ucionica,
                  assigned.rows[i].broj_kartice>>
                # <<assigned.rows[k].vrijeme, assigned.rows[k].ucionica,
                    assigned.rows[k].broj_kartice>>

\* a duplicated event row, held by two windows of its location, whose card
\* has two directory rows
C2_Witness ==
    /\ pc = "assigned"
    /\ Len(log_df) = 2 /\ log_df[1] = log_df[2]
    /\ Cardinality(WindowsHolding(log_df[1].ucionica, log_df[1].time)) = 2
    /\ Len(kartice) = 2
    /\ kartice[1].uid_kartice = log_df[1].uid_kartice
    /\ kartice[2].uid_kartice = log_df[1].uid_kartice
    /\ kartice[1].cuvar # kartice[2].cuvar
    /\ Len(assigned.rows) = 1

\* C3: a record carries the slot time nearest to its event among the windows
\* of its location that hold the event
C3_NearestSlot ==
    pc = "assigned" =>
        \A rec \in Range(assigned.rows) :
            \A i \in WindowsHolding(rec.ucionica, rec.vrijeme) :
                Abs(rec.vrijeme - rec.termin) <= Abs(rec.vrijeme - windows[i].termin)

\* two cards scanned at one time and place, held by two windows at different
\* distances, the farther window first among the window rows
C3_Witness ==
    /\ pc = "assigned"
    /\ Len(windows) = 2
    /\ Len(log_df) = 2
    /\ log_df[1].time = log_df[2].time
    /\ log_df[1].ucionica = log_df[2].ucionica
    /\ log_df[1].uid_kartice # log_df[2].uid_kartice
    /\ WindowsHolding(log_df[1].ucionica, log_df[1].time) = {1, 2}
    /\ Abs(log_df[1].time - windows[1].termin) > Abs(log_df[1].time - windows[2].termin)
    /\ Len(assigned.rows) = 2
    /\ \A rec \in Range(assigned.rows) : rec.termin = windows[2].termin

\* the windows of a location that hold a time at the least distance
NearestHolding(room, t) ==
    {i \in WindowsHolding(room, t) :
        \A k \in WindowsHolding(room, t) :
            Abs(t - windows[i].termin) <= Abs(t - windows[k].termin)}

SetMin(S) == CHOOSE x \in S : \A y \in S : x <= y

\* C4 as stated: on an exact tie the window with the earlier slot time wins
C4_EarlierSlotWins ==
    pc = "assigned" =>
        \A rec \in Range(assigned.rows) :
            rec.termin = SetMin({windows[i].termin :
                                    i \in NearestHolding(rec.ucionica, rec.vrijeme)})

\* C4: on an exact tie the window that comes first among the window rows wins
C4_FirstRowWins ==
    pc = "assigned" =>
        \A rec \in Range(assigned.rows) :
            rec.termin = windows[SetMin(NearestHolding(rec.ucionica, rec.vrijeme))].termin

\* an event at equal distance from two slots of its location, the later slot
\* first among the schedule rows, assigned to the later slot
C4_Witness ==
    /\ pc = "assigned"
    /\ Len(windows) = 2
    /\ windows[1].termin > windows[2].termin
    /\ \E rec \in Range(assigned.rows) :
          /\ NearestHolding(rec.ucionica, rec.vrijeme) = {1, 2}
          /\ rec.termin = windows[1].termin

\* C8: every event that lies in a window of its location has an output record
\* with its (event_time, location, card_id); if its card has no directory
\* row, the holder of that record is the missing value
C8_NoQualifyingEventDropped ==
    pc = "assigned" =>
        \A e \in Range(log_df) :
            WindowsHolding(e.ucionica, e.time) # {} =>
                \E rec \in Range(assigned.rows) :
                    /\ rec.vrijeme = e.time
                    /\ rec.ucionica = e.ucionica
                    /\ rec.broj_kartice = e.uid_kartice
                    /\ (\A k \in Range(kartice) : k.uid_kartice # e.uid_kartice)
                          => rec.cuvar = NaN
                    /\ (\E k \in Range(kartice) : k.uid_kartice = e.uid_kartice)
                          => \E k \in Range(kartice) :
                                k.uid_kartice = e.uid_kartice /\ rec.cuvar = k.cuvar

\* a qualifying event whose card is not in a non-empty directory, next to one
\* whose card is
C8_Witness ==
    /\ pc = "assigned"
    /\ kartice # <<>>
    /\ \E rec \in Range(assigned.rows) : rec.cuvar = NaN
    /\ \E rec \in Range(assigned.rows) : rec.cuvar # NaN

\* C9 as stated: an empty schedule, an empty event set or an empty directory
\* each yield an empty collection with the five columns
C9_EmptyInputEmptyOutput ==
    pc = "assigned" =>
        ((raspored = <<>> \/ log_df = <<>> \/ kartice = <<>>) =>
            assigned = [columns |-> AssignedColumns, rows |-> <<>>])

\* C9: an empty schedule or an empty event set yields an empty collection with
\* the five columns; an empty directory yields the five columns and one
\* record with a missing holder for every qualifying event
C9_EmptyInputSafety ==
    pc = "assigned" =>
        /\ (raspored = <<>> \/ log_df = <<>>) =>
              assigned = [columns |-> AssignedColumns, rows |-> <<>>]
        /\ kartice = <<>> =>
              /\ assigned.columns = AssignedColumns
              /\ \A rec \in Range(assigned.rows) : rec.cuvar = NaN
              /\ {<<rec.vrijeme, rec.ucionica, rec.broj_kartice>> :
                      rec \in Range(assigned.rows)}
                 = {<<e.time, e.ucionica, e.uid_kartice>> :
                      e \in {x \in Range(log_df) :
                                WindowsHolding(x.ucionica, x.time) # {}}}

\* an empty directory with a qualifying event, matched
C9_Witness ==
    /\ pc = "assigned"
    /\ kartice = <<>>
    /\ raspored # <<>>
    /\ log_df # <<>>
    /\ assigned.rows # <<>>

\* an empty schedule with events and a directory
C9_WitnessEmptySchedule ==
    /\ pc = "assigned"
    /\ raspored = <<>>
    /\ log_df # <<>>
    /\ kartice # <<>>

\* ------------------------------------------------------------------------
\* Properties of the window builders
\* ------------------------------------------------------------------------
\* the schedule rows at the selected HH:MM
SlotsAtTarget == {r \in Range(raspored) : strftime_HM(r.termin) = sel_hhmm}

\* C5 as stated: the entry builder yields exactly one window per location
\* with a slot at the target HH:MM, on the earliest such slot of the location
C5_OneWindowPerLocation ==
    (pc = "windows" /\ flow = "in") =>
        /\ {w.ucionica : w \in Range(windows)} = {r.ucionica : r \in SlotsAtTarget}
        /\ \A i, k \in 1..Len(windows) :
              windows[i].ucionica = windows[k].ucionica => i = k
        /\ \A w \in Range(windows) :
              /\ w.termin = SetMin({r.termin : r \in
                                {x \in SlotsAtTarget : x.ucionica = w.ucionica}})
              /\ w.window_start = w.termin - 60 * 60
              /\ w.window_end = w.termin + 30 * 60

\* C5: the entry builder yields exactly one window per distinct (location,
\* slot timestamp) at the target HH:MM, each on its own slot time, from 60
\* minutes before it to 30 minutes after it
C5_OneWindowPerSlot ==
    (pc = "windows" /\ flow = "in") =>
        /\ {<<w.ucionica, w.termin>> : w \in Range(windows)}
           = {<<r.ucionica, r.termin>> : r \in SlotsAtTarget}
        /\ \A i, k \in 1..Len(windows) :
              (/\ windows[i].ucionica = windows[k].ucionica
               /\ windows[i].termin = windows[k].termin) => i = k
        /\ \A w \in Range(windows) :
              /\ w.window_start = w.termin - 60 * 60
              /\ w.window_end = w.termin + 30 * 60

\* two schedule rows of one location at the target HH:MM that differ in
\* seconds, and the two windows built from them
C5_Witness ==
    /\ pc = "windows"
    /\ flow = "in"
    /\ Len(raspored) = 2
    /\ raspored[1].ucionica = raspored[2].ucionica
    /\ raspored[1].termin # raspored[2].termin
    /\ strftime_HM(raspored[1].termin) = sel_hhmm
    /\ strftime_HM(raspored[2].termin) = sel_hhmm
    /\ Len(windows) = 2

\* the exit window bounds the code is to compute for the selected HH:MM
ExitStart == SetMin({r.termin : r \in SlotsAtTarget})

ExitEnd ==
    LET later == {r.termin : r \in {x \in Range(raspored) : x.termin > ExitStart}}
    IN  IF later = {} THEN 23 * 3600 + 59 * 60 + 59 ELSE SetMin(later)

\* C6: the exit builder gives every location with a slot at the target HH:MM
\* one window from the earliest slot at that HH:MM to the next later slot
\* time of the day at any location, or to 23:59:59; an exit event at such a
\* location is assigned to the target slot iff it lies in [start, end)
C6_ExitWindow ==
    (pc \in {"windows", "assigned"} /\ flow = "out") =>
        /\ {w.ucionica : w \in Range(windows)} = {r.ucionica : r \in SlotsAtTarget}
        /\ \A i, k \in 1..Len(windows) :
              windows[i].ucionica = windows[k].ucionica => i = k
        /\ \A w \in Range(windows) :
              /\ w.termin = ExitStart
              /\ w.window_start = ExitStart
              /\ w.window_end = ExitEnd
        /\ pc = "assigned" =>
              \A e \in Range(log_df) :
                  (\E r \in SlotsAtTarget : r.ucionica = e.ucionica) =>
                      ((ExitStart <= e.time /\ e.time < ExitEnd)
                       <=> \E rec \in Range(assigned.rows) :
                              /\ rec.vrijeme = e.time
                              /\ rec.ucionica = e.ucionica
                              /\ rec.broj_kartice = e.uid_kartice
                              /\ rec.termin = ExitStart)

\* a slot at the target HH:MM and a later slot at another location; one exit
\* before the later slot is assigned, one at the later slot is not
C6_Witness ==
    /\ pc = "assigned"
    /\ flow = "out"
    /\ SlotsAtTarget # {}
    /\ \E r \in Range(raspored) :
          /\ strftime_HM(r.termin) # sel_hhmm
          /\ r.termin = ExitEnd
          /\ \A x \in SlotsAtTarget : x.ucionica # r.ucionica
    /\ \E e \in Range(log_df) :
          /\ e.time = ExitEnd
          /\ \E x \in SlotsAtTarget : x.ucionica = e.ucionica
    /\ Len(assigned.rows) = 1

\* the exit window that runs to the end of the day
C6_WitnessFallback ==
    /\ pc = "assigned"
    /\ flow = "out"
    /\ windows # <<>>
    /\ windows[1].window_end = 86399
    /\ assigned.rows # <<>>

\* C7: every window of either builder has window_start < window_end
C7_WindowInvariant ==
    pc = "windows" => \A w \in Range(windows) : w.window_start < w.window_end

\* ------------------------------------------------------------------------
\* Properties of the page rotation
\* ------------------------------------------------------------------------
\* total_pages = max(1, ceil(record_count / page_size))
TotalPages ==
    LET pages == {k \in 0..tbl.n : k * tbl.page_size >= tbl.n}
    IN  Max(1, SetMin(pages))

\* AutoActive: in the entry flow from 60 minutes before the selected slot up
\* to the slot, in the exit flow while the selected date is today
AutoActive ==
    IF flow = "in"
    THEN /\ dropdown_termin # None
         /\ picker_datum * 1440 + dropdown_termin - 60 <= now
         /\ now < picker_datum * 1440 + dropdown_termin
    ELSE picker_datum = now \div 1440

\* C10: a rotation callback run by a pager tick while AutoActive leaves
\* current_page = (current_page + 1) mod total_pages
C10_RotationStep ==
    (pc = "page" /\ last_rot.src = "pager" /\ AutoActive) =>
        tbl.page_current = (last_rot.prev + 1) % TotalPages

\* a tick on the last of three pages wrapped to page 0 in the entry flow
C10_Witness ==
    /\ pc = "page"
    /\ flow = "in"
    /\ last_rot.src = "pager"
    /\ AutoActive
    /\ TotalPages = 3
    /\ last_rot.prev = 2
    /\ tbl.page_current = 0

\* a tick advanced the page in the exit flow
C10_WitnessOut ==
    /\ pc = "page"
    /\ flow = "out"
    /\ last_rot.src = "pager"
    /\ AutoActive
    /\ TotalPages = 2
    /\ last_rot.prev = 0
    /\ tbl.page_current = 1

\* a tick on a table of one page
C10_WitnessOnePage ==
    /\ pc = "page"
    /\ last_rot.src = "pager"
    /\ AutoActive
    /\ TotalPages = 1
    /\ tbl.page_current = 0

\* C11: a rotation callback run that a change of the date, the slot or the
\* page size has triggered leaves current_page = 0, also when a pager tick
\* triggered the same run
C11_ResetOnFilterChange ==
    (pc = "page" /\ \E i \in 1..Len(last_rot.props) : last_rot.props[i] \in FilterProps) =>
        tbl.page_current = 0

\* C12: a rotation callback run by a pager tick while not AutoActive leaves
\* current_page as it was
C12_StaticTickKeepsPage ==
    (pc = "page" /\ last_rot.src = "pager" /\ ~AutoActive) =>
        tbl.page_current = last_rot.prev

\* a tick at the slot time itself, one minute after the last AutoActive
\* minute, left page 1 of several pages of the entry table
C12_Witness ==
    /\ pc = "page"
    /\ flow = "in"
    /\ last_rot.src = "pager"
    /\ dropdown_termin # None
    /\ now = picker_datum * 1440 + dropdown_termin
    /\ TotalPages > 1
    /\ last_rot.prev = 1
    /\ tbl.page_current = 1

\* a tick one minute before the lead window opens
C12_WitnessBefore ==
    /\ pc = "page"
    /\ flow = "in"
    /\ last_rot.src = "pager"
    /\ dropdown_termin # None
    /\ now = picker_datum * 1440 + dropdown_termin - 61
    /\ TotalPages > 1

\* a tick of the exit table on a date that is not today
C12_WitnessOut ==
    /\ pc = "page"
    /\ flow = "out"
    /\ last_rot.src = "pager"
    /\ picker_datum # now \div 1440
    /\ TotalPages > 1
    /\ last_rot.prev = 1
    /\ tbl.page_current = 1

\* C15: the stored current_page is a page of the displayed data,
\* 0 <= current_page < total_pages
C15_PageBound ==
    pc = "page" => (0 <= tbl.page_current /\ tbl.page_current < TotalPages)

\* C13: concurrent runs of the rotation callback act on current_page as if
\* each were one step: k ticks on unchanged data advance the page by
\* k mod total_pages, and a reset to 0 is not overwritten by a tick that
\* read the page before the reset
C13_AtomicRotation ==
    pc = "conc" => tbl.page_current = serial

\* the sort key of a record: prefix, number, event time, label
KeyOf(r) == <<LeadingLetters(r.ucionica), RoomNum(r.ucionica), r.vrijeme, r.ucionica>>

\* the ascending order of the sort keys
KeyLess(a, b) ==
    LET ka == KeyOf(a)
        kb == KeyOf(b)
    IN  IF ka[1] # kb[1] THEN StrLess(ka[1], kb[1])
        ELSE IF ka[2] # kb[2] THEN ka[2] < kb[2]
        ELSE IF ka[3] # kb[3] THEN StrLess(ka[3], kb[3])
        ELSE StrLess(ka[4], kb[4])

\* the rows of df in every order
PermsOf(df) ==
    {[i \in 1..Len(df) |-> df[f[i]]] : f \in Permutations(1..Len(df))}

\* the table is ascending in the sort key
Ascending(t) == \A i, j \in 1..Len(t) : i < j => ~KeyLess(t[j], t[i])

\* the position of a record in the frame
IndexIn(df, r) == CHOOSE i \in 1..Len(df) : df[i] = r

\* C14 (as stated): the records are ascending by (prefix, number, secondary
\* column, label) and the result is the same for every permutation of the
\* input rows
C14_NaturalOrder ==
    pc = "sorted" =>
        /\ Ascending(table)
        /\ \A p \in PermsOf(merged) : sort_rooms_natural(p, <<"vrijeme">>) = table

\* C14 (amended): the result holds the input records ascending by (prefix,
\* number, secondary column, label), so C1 < C2 < C10; records of equal key
\* keep their input order, every permutation of the input gives the same
\* sequence of keys, and the same records when no two keys are equal
C14_NaturalOrderStable ==
    pc = "sorted" =>
        /\ table \in PermsOf(merged)
        /\ Ascending(table)
        /\ \A i, j \in 1..Len(table) :
              (i < j /\ KeyOf(table[i]) = KeyOf(table[j])) =>
                  IndexIn(merged, table[i]) < IndexIn(merged, table[j])
        /\ \A p \in PermsOf(merged) :
              LET t == sort_rooms_natural(p, <<"vrijeme">>)
              IN  /\ [i \in 1..Len(t) |-> KeyOf(t[i])]
                        = [i \in 1..Len(table) |-> KeyOf(table[i])]
                  /\ (\A i, j \in 1..Len(merged) :
                          i # j => KeyOf(merged[i]) # KeyOf(merged[j])) => t = table

\* C10 is given before C2 and C1, and the table holds C1, C2, C10
C14_Witness ==
    /\ pc = "sorted"
    /\ Len(merged) = 3
    /\ [i \in 1..3 |-> merged[i].ucionica] = <<<<67, 49, 48>>, <<67, 50>>, <<67, 49>>>>
    /\ [i \in 1..3 |-> table[i].ucionica] = <<<<67, 49>>, <<67, 50>>, <<67, 49, 48>>>>

\* the rooms with a slot at the selected HH:MM
RoomsAtTarget == {r.ucionica : r \in SlotsAtTarget}

\* the rows of the table for one room
RowsOf(room) == {i \in 1..Len(table) : table[i].ucionica = room}

\* a refresh with a schedule and a selected slot has returned
Refreshed == pc = "refreshed" /\ raspored # <<>> /\ sel_hhmm # None

\* C16: after a refresh with a non-empty schedule and a selected slot, each
\* room with a slot at the selected HH:MM is in the table; a room without
\* matched event is there exactly once, with the placeholder for time, card
\* and holder; no room without a slot at the selected HH:MM is in the table
C16_EveryScheduledRoomShown ==
    Refreshed =>
        /\ \A room \in RoomsAtTarget : RowsOf(room) # {}
        /\ \A room \in RoomsAtTarget :
              (\A j \in 1..Len(assigned.rows) : assigned.rows[j].ucionica # room) =>
                  /\ Cardinality(RowsOf(room)) = 1
                  /\ \A i \in RowsOf(room) :
                        /\ table[i].vrijeme = Placeholder
                        /\ table[i].broj_kartice = PlaceholderName
                        /\ table[i].cuvar = PlaceholderName
        /\ \A i \in 1..Len(table) : table[i].ucionica \in RoomsAtTarget

\* two rooms have a slot at the selected HH:MM, a third has not; one of the
\* two has a matched event, the other none and is shown with placeholders
C16_Witness ==
    /\ Refreshed
    /\ Cardinality(RoomsAtTarget) = 2
    /\ \E i \in 1..Len(log_df) : log_df[i].ucionica \notin RoomsAtTarget
    /\ Len(assigned.rows) > 0
    /\ \E i \in 1..Len(table) : table[i].vrijeme = Placeholder
    /\ \E i \in 1..Len(table) : table[i].vrijeme # Placeholder

\* no event is matched at all and the room of the slot is shown once
C16_WitnessNoEvent ==
    /\ Refreshed
    /\ assigned.rows = <<>>
    /\ log_df # <<>>
    /\ Len(table) = 1
    /\ table[1].vrijeme = Placeholder

\* C17: in the table a refresh returns, all rows of one room are adjacent,
\* also for rooms that share the alphabetic prefix and the first number
C17_RoomRowsContiguous ==
    pc = "refreshed" =>
        \A i, j, k \in 1..Len(table) :
            (i < k /\ k < j /\ table[i].ucionica = table[j].ucionica) =>
                table[k].ucionica = table[i].ucionica

====
